---- MODULE Spec2Model ----
(***************************************************************************)
(* A model of the geometry core of meshviewer_plotly_cef_tk.py: the STL    *)
(* and OBJ parsers of class Model, the Mesh class (bounding box, wireframe *)
(* edges) and the operations the controller and the view run on the model. *)
(*                                                                         *)
(* Representation.  A text line is the sequence of its whitespace          *)
(* separated tokens (what line.split() returns); a token is a sequence of  *)
(* one-character strings, so that the conversions of the code (int, float, *)
(* replace, split, lower, endswith) are computed on the characters.        *)
(* Coordinates are integers: the numeric tokens of the inputs are integer  *)
(* literals, on which float() and int() accept the same strings.           *)
(* An operation that can raise returns a record [err, val]; err is the     *)
(* name of the Python exception, or "none".                                *)
(***************************************************************************)
EXTENDS Integers, Sequences, FiniteSets, Bags, TLC

VARIABLES
    data,       \* Model.data: the list of Mesh objects the model owns
    op,         \* the operation that ran last
    err,        \* the exception the last operation raised, "none" if it returned
    result,     \* what the last operation returned (NoValue if nothing)
    before,     \* Model.data when Controller.open started, if it ran last
    invoked,    \* the STL parsers the last operation ran ("ascii", "binary")
    file,       \* the file the last operation loaded: [name, read, binary,
                \* vectors, lines]; NoFile if it loaded none
    pc,         \* position in Model.load_stl's token walk
    i,          \* load_stl: index of the next line of the walk
    vertices,   \* load_stl: the local `vertices`
    faces,      \* load_stl: the local `faces`
    v,          \* load_stl: the local `v`
    mesh        \* the Mesh object a mesh-level query runs on

vars == <<data, op, err, result, before, invoked, file, pc, i, vertices, faces, v, mesh>>

NoValue == <<>>

-----------------------------------------------------------------------------
(* Bounds of the model *)

\* longest ASCII STL file (in lines) the walk is run on
MaxStlLines == 6
\* longest OBJ file (in lines) load_obj is run on
MaxObjLines == 4
\* most faces of a mesh whose line segments are queried
MaxEdgeFaces == 2
\* most meshes Model.data holds
MaxMeshes == 3

-----------------------------------------------------------------------------
(* Python built-ins the code uses *)

Min(S) == CHOOSE x \in S : \A y \in S : x <= y
Max(S) == CHOOSE x \in S : \A y \in S : x >= y

\* seq[k] for a Python list: k counts from 0, a negative k counts from the end
InRange(seq, k) == k < Len(seq) /\ k >= -Len(seq)
PyGet(seq, k) == IF k >= 0 THEN seq[k + 1] ELSE seq[Len(seq) + k + 1]

Digits == {"0", "1", "2", "3", "4", "5", "6", "7", "8", "9"}
DigitOf == ("0" :> 0) @@ ("1" :> 1) @@ ("2" :> 2) @@ ("3" :> 3) @@ ("4" :> 4) @@
           ("5" :> 5) @@ ("6" :> 6) @@ ("7" :> 7) @@ ("8" :> 8) @@ ("9" :> 9)

RECURSIVE DigitsValue(_)
DigitsValue(s) ==
    IF s = <<>> THEN 0
    ELSE 10 * DigitsValue(SubSeq(s, 1, Len(s) - 1)) + DigitOf[s[Len(s)]]

\* int(tok): an optional sign and at least one digit, else ValueError
py_int(tok) ==
    LET neg  == tok # <<>> /\ tok[1] = "-"
        body == IF neg THEN Tail(tok) ELSE tok
    IN  IF body = <<>> \/ \E k \in 1..Len(body) : body[k] \notin Digits
        THEN [err |-> "ValueError", val |-> 0]
        ELSE [err |-> "none",
              val |-> IF neg THEN 0 - DigitsValue(body) ELSE DigitsValue(body)]

\* float(tok), on tokens that are integer literals or not numbers at all
py_float(tok) == py_int(tok)

\* tok.replace('//', '/'): left to right, without overlap
RECURSIVE ReplaceSlashes(_)
ReplaceSlashes(tok) ==
    IF Len(tok) < 2 THEN tok
    ELSE IF tok[1] = "/" /\ tok[2] = "/"
         THEN <<"/">> \o ReplaceSlashes(SubSeq(tok, 3, Len(tok)))
         ELSE <<tok[1]>> \o ReplaceSlashes(Tail(tok))

\* tok.split('/'): the pieces between the slashes, at least one piece
RECURSIVE SplitSlash(_)
SplitSlash(tok) ==
    IF \A k \in 1..Len(tok) : tok[k] # "/" THEN <<tok>>
    ELSE LET p == Min({k \in 1..Len(tok) : tok[k] = "/"})
         IN  <<SubSeq(tok, 1, p - 1)>> \o SplitSlash(SubSeq(tok, p + 1, Len(tok)))

LowerChar(c) ==
    CASE c = "A" -> "a" [] c = "B" -> "b" [] c = "J" -> "j" [] c = "L" -> "l"
      [] c = "O" -> "o" [] c = "S" -> "s" [] c = "T" -> "t" [] OTHER -> c

\* name.lower()
Lower(name) == [k \in 1..Len(name) |-> LowerChar(name[k])]

\* name.endswith(suffix)
EndsWith(name, suffix) ==
    /\ Len(name) >= Len(suffix)
    /\ SubSeq(name, Len(name) - Len(suffix) + 1, Len(name)) = suffix

-----------------------------------------------------------------------------
(* class Mesh *)

\* Mesh.get_vertices: IndexError when a face index has no vertex
Mesh_get_vertices(vs, fs) ==
    IF \E f \in 1..Len(fs) : \E j \in 1..Len(fs[f]) : ~InRange(vs, fs[f][j] - 1)
    THEN [err |-> "IndexError", val |-> NoValue]
    ELSE [err |-> "none",
          val |-> [f \in 1..Len(fs) |->
                     [j \in 1..Len(fs[f]) |-> PyGet(vs, fs[f][j] - 1)]]]

\* Mesh.get_bounding_box: per axis [min, max] over the face-expanded vertices
Mesh_get_bounding_box(vs, fs) ==
    LET gv == Mesh_get_vertices(vs, fs)
        used == UNION {{<<f, j>> : j \in 1..Len(fs[f])} : f \in 1..Len(fs)}
    IN  IF gv.err # "none" THEN [err |-> gv.err, val |-> NoValue]
        ELSE IF vs = <<>> THEN [err |-> "IndexError", val |-> NoValue]
        ELSE IF used = {} THEN [err |-> "ValueError", val |-> NoValue]
        ELSE [err |-> "none",
              val |-> [a \in 1..Len(vs[1]) |->
                         <<Min({gv.val[p[1]][p[2]][a] : p \in used}),
                           Max({gv.val[p[1]][p[2]][a] : p \in used})>>]]

\* Mesh.__init__
Mesh_init(vs, fs) ==
    LET b == Mesh_get_bounding_box(vs, fs)
    IN  IF b.err # "none" THEN [err |-> b.err, val |-> NoValue]
        ELSE [err |-> "none",
              val |-> [vertices |-> vs, faces |-> fs, bounding_box |-> b.val]]

\* the pair as traversed, without putting the smaller index first
NormalizeEdge_AsTraversed(iv, jv) == <<iv, jv>>

\* lines 158-161: the pair of indices with the smaller one first
NormalizeEdge(iv, jv) == IF jv > iv THEN <<iv, jv>> ELSE <<jv, iv>>

\* lines 155-163 for one face: each index with its successor, last with first
FaceEdges(face) ==
    {NormalizeEdge(face[k], face[(k % Len(face)) + 1]) : k \in 1..Len(face)}

\* the set `line_segments` after the first n faces
RECURSIVE LineSegmentSet(_, _)
LineSegmentSet(fs, n) ==
    IF n = 0 THEN {} ELSE LineSegmentSet(fs, n - 1) \cup FaceEdges(fs[n])

\* the line segment of an edge: the coordinates of its two end points
Segment(vs, edge) == <<PyGet(vs, edge[1] - 1), PyGet(vs, edge[2] - 1)>>

\* Mesh.get_line_segments.  The returned list is in the iteration order of a
\* Python set, which is unspecified: it is modelled as the bag of its elements.
Mesh_get_line_segments(m) ==
    LET edges == LineSegmentSet(m.faces, Len(m.faces))
        segs  == {Segment(m.vertices, e) : e \in edges}
    IN  [s \in segs |-> Cardinality({e \in edges : Segment(m.vertices, e) = s})]

-----------------------------------------------------------------------------
(* Tokens *)

T_solid   == <<"s", "o", "l", "i", "d">>
T_part    == <<"p", "a", "r", "t">>
T_facet   == <<"f", "a", "c", "e", "t">>
T_outer   == <<"o", "u", "t", "e", "r">>
T_loop    == <<"l", "o", "o", "p">>
T_vertex  == <<"v", "e", "r", "t", "e", "x">>
T_endloop == <<"e", "n", "d", "l", "o", "o", "p">>
T_v       == <<"v">>
T_f       == <<"f">>
T_hash    == <<"#">>
T_abc     == <<"a", "b", "c">>

\* the token of a one-digit number, negative numbers with their sign
Num(n) ==
    LET d == CHOOSE c \in Digits : DigitOf[c] = (IF n < 0 THEN 0 - n ELSE n)
    IN  IF n < 0 THEN <<"-", d>> ELSE <<d>>

-----------------------------------------------------------------------------
(* class Model: the parsers *)

\* [float(line_data[1]), float(line_data[2]), float(line_data[3])], evaluated
\* left to right: a missing token is an IndexError, a bad one a ValueError
ParseCoords(line_data) ==
    LET bad == {k \in 1..3 : \/ Len(line_data) < k + 1
                             \/ py_float(line_data[k + 1]).err # "none"}
    IN  IF bad = {}
        THEN [err |-> "none",
              val |-> [k \in 1..3 |-> py_float(line_data[k + 1]).val]]
        ELSE IF Len(line_data) < Min(bad) + 1
             THEN [err |-> "IndexError", val |-> NoValue]
             ELSE [err |-> "ValueError", val |-> NoValue]

\* the triangle numbered from 3 * len(faces), without the + 1
FlushLoop_ZeroBased(st) ==
    IF Len(st.v) = 3
    THEN LET ind == 3 * Len(st.faces)
         IN  [st EXCEPT !.vertices = st.vertices \o st.v,
                        !.faces = Append(st.faces, <<ind, ind + 1, ind + 2>>)]
    ELSE st

\* lines 87-90: an endloop with three vertices collected adds one triangle
FlushLoop(st) ==
    IF Len(st.v) = 3
    THEN LET ind == 3 * Len(st.faces) + 1
         IN  [st EXCEPT !.vertices = st.vertices \o st.v,
                        !.faces = Append(st.faces, <<ind, ind + 1, ind + 2>>)]
    ELSE st

\* one pass of the loop of load_stl, on line number idx (from 0);
\* st = [vertices, faces, v, err] are the locals before the pass
StlStep(st, idx, line) ==
    IF idx = 0 /\ line # <<T_solid>>
    THEN [st EXCEPT !.err = "ValueError"]
    ELSE IF line = <<>>
    THEN [st EXCEPT !.err = "IndexError"]
    ELSE IF line[1] = T_facet
    THEN [st EXCEPT !.v = <<>>]
    ELSE IF line[1] = T_vertex
    THEN LET c == ParseCoords(line)
         IN  IF c.err # "none" THEN [st EXCEPT !.err = c.err]
             ELSE [st EXCEPT !.v = Append(st.v, c.val)]
    ELSE IF line[1] = T_endloop
    THEN FlushLoop(st)
    ELSE st

\* the locals of load_stl at lines 71-73
StlStart == [vertices |-> <<>>, faces |-> <<>>, v |-> <<>>, err |-> "none"]

\* the locals after the first n lines; the loop ends at the first exception
RECURSIVE StlWalk(_, _)
StlWalk(lines, n) ==
    IF n = 0 THEN StlStart
    ELSE LET st == StlWalk(lines, n - 1)
         IN  IF st.err # "none" THEN st ELSE StlStep(st, n - 1, lines[n])

\* load_stl_with_numpy_stl: stl.mesh.Mesh.from_file is the numpy-stl library.
\* It raises when the file cannot be opened or is no binary STL; otherwise
\* msh.vectors are the triangles of the file.
load_stl_with_numpy_stl(f) ==
    IF f.read = "IOError" THEN [err |-> "IOError", val |-> NoValue]
    ELSE IF ~f.binary THEN [err |-> "AssertionError", val |-> NoValue]
    ELSE IF f.vectors = <<>> THEN [err |-> "ValueError", val |-> NoValue]
    ELSE LET n_faces == Len(f.vectors)
         IN  Mesh_init([k \in 1..(3 * n_faces) |->
                            f.vectors[((k - 1) \div 3) + 1][((k - 1) % 3) + 1]],
                       [k \in 1..n_faces |-> <<3 * k - 2, 3 * k - 1, 3 * k>>])

\* the parsers load_stl runs: the binary decoder in the except branch (line 69),
\* the token walk otherwise
StlParsers(f) == IF f.read # "ok" THEN {"binary"} ELSE {"ascii"}

\* Model.load_stl
load_stl(f) ==
    IF "binary" \in StlParsers(f) THEN load_stl_with_numpy_stl(f)
    ELSE LET st == StlWalk(f.lines, Len(f.lines))
         IN  IF st.err # "none" THEN [err |-> st.err, val |-> NoValue]
             ELSE Mesh_init(st.vertices, st.faces)

\* lines 118-123: the face of an `f` line; int() of a bad token is a ValueError
ParseFace(line_data) ==
    LET first(tok) == SplitSlash(ReplaceSlashes(tok))[1]
    IN  IF \E k \in 2..Len(line_data) : py_int(first(line_data[k])).err # "none"
        THEN [err |-> "ValueError", val |-> NoValue]
        ELSE [err |-> "none",
              val |-> [k \in 1..(Len(line_data) - 1) |->
                         py_int(first(line_data[k + 1])).val]]

\* one pass of the loop of load_obj; st = [vertices, faces, err]
ObjStep(st, line_data) ==
    IF line_data = <<>> THEN st
    ELSE IF line_data[1] = T_v
    THEN LET c == ParseCoords(line_data)
         IN  IF c.err # "none" THEN [st EXCEPT !.err = c.err]
             ELSE [st EXCEPT !.vertices = Append(st.vertices, c.val)]
    ELSE IF line_data[1] = T_f
    THEN LET fc == ParseFace(line_data)
         IN  IF fc.err # "none" THEN [st EXCEPT !.err = fc.err]
             ELSE [st EXCEPT !.faces = Append(st.faces, fc.val)]
    ELSE st

RECURSIVE ObjWalk(_, _)
ObjWalk(lines, n) ==
    IF n = 0 THEN [vertices |-> <<>>, faces |-> <<>>, err |-> "none"]
    ELSE LET st == ObjWalk(lines, n - 1)
         IN  IF st.err # "none" THEN st ELSE ObjStep(st, lines[n])

\* Model.load_obj
load_obj(f) ==
    IF f.read # "ok" THEN [err |-> f.read, val |-> NoValue]
    ELSE LET st == ObjWalk(f.lines, Len(f.lines))
         IN  IF st.err # "none" THEN [err |-> st.err, val |-> NoValue]
             ELSE Mesh_init(st.vertices, st.faces)

-----------------------------------------------------------------------------
(* class Model: the collection *)

\* Model.__init__ with data=None: the unit cube
CubeVertices ==
    << <<0,0,0>>, <<1,0,0>>, <<1,1,0>>, <<0,1,0>>,
       <<0,0,1>>, <<1,0,1>>, <<1,1,1>>, <<0,1,1>> >>
CubeFaces ==
    << <<1,2,3>>, <<1,3,4>>, <<1,2,6>>, <<1,6,5>>, <<2,3,7>>, <<2,7,6>>,
       <<3,4,8>>, <<3,8,7>>, <<4,1,5>>, <<4,5,8>>, <<5,6,7>>, <<5,7,8>> >>
Model_init == <<Mesh_init(CubeVertices, CubeFaces).val>>

\* lines 53 and 56: the parser the file name selects
Dispatch(file_name) ==
    IF \/ EndsWith(Lower(file_name), <<".", "s", "t", "l">>)
       \/ EndsWith(Lower(file_name), <<".", "s", "t", "l", "a">>)
    THEN "stl"
    ELSE IF EndsWith(Lower(file_name), <<".", "o", "b", "j">>) THEN "obj"
    ELSE "none"

\* line 54 or 57: the mesh the selected parser returns; with neither
\* extension `mesh` stays unbound and line 59 raises
ParseFile(f) ==
    LET kind == Dispatch(f.name)
    IN  IF kind = "stl" THEN load_stl(f)
        ELSE IF kind = "obj" THEN load_obj(f)
        ELSE [err |-> "UnboundLocalError", val |-> NoValue]

\* Model.load_file on the collection d, parsed the result of lines 53-57:
\* [err, data]
Model_load_file(d, parsed) ==
    IF parsed.err # "none" THEN [err |-> parsed.err, data |-> d]
    ELSE [err |-> "none", data |-> Append(d, parsed.val)]

\* Model.clear
Model_clear(d) == <<>>

\* the maximum widened by the other box's minimum instead of its maximum
Widen_MaxByMin(bbox, other) ==
    [a \in 1..Len(bbox) |->
        <<Min({bbox[a][1], Min({other[a][1], other[a][2]})}),
          Max({bbox[a][2], Min({other[a][1], other[a][2]})})>>]

\* lines 132-133 for every axis: the running box widened by another mesh's box
Widen(bbox, other) ==
    [a \in 1..Len(bbox) |->
        <<Min({bbox[a][1], Min({other[a][1], other[a][2]})}),
          Max({bbox[a][2], Max({other[a][1], other[a][2]})})>>]

\* the running box after the meshes 2..n of d (lines 129-133)
RECURSIVE RunningBox(_, _)
RunningBox(d, n) ==
    IF n <= 1 THEN d[1].bounding_box
    ELSE Widen(RunningBox(d, n - 1), d[n].bounding_box)

\* Model.get_bounding_box on the collection d: [err, val, data].  `bbox` is the
\* list object data[0].bounding_box itself (line 128 makes no copy), so the
\* assignments of lines 132-133 write into the first mesh.
Model_get_bounding_box(d) ==
    IF d = <<>> THEN [err |-> "IndexError", val |-> NoValue, data |-> d]
    ELSE LET bbox == RunningBox(d, Len(d))
         IN  [err |-> "none", val |-> bbox,
              data |-> [d EXCEPT ![1].bounding_box = bbox]]

-----------------------------------------------------------------------------
(* Input files *)

VLine(p) == <<T_v, Num(p[1]), Num(p[2]), Num(p[3])>>
FLine(face) == <<T_f>> \o [k \in 1..Len(face) |-> Num(face[k])]
VertexLine(p) == <<T_vertex, Num(p[1]), Num(p[2]), Num(p[3])>>

TextFile(name, lines) ==
    [name |-> name, read |-> "ok", binary |-> FALSE, vectors |-> <<>>, lines |-> lines]

\* the unit cube moved by (5,0,0), as an OBJ file
Cube5Obj ==
    TextFile(<<"c", ".", "o", "b", "j">>,
             [k \in 1..8 |-> VLine(<<CubeVertices[k][1] + 5, CubeVertices[k][2],
                                     CubeVertices[k][3]>>)]
             \o [k \in 1..12 |-> FLine(CubeFaces[k])])

\* one triangle, as an ASCII STL file
TriStl ==
    TextFile(<<"t", ".", "s", "t", "l">>,
             << <<T_solid>>, <<T_facet>>, <<T_outer, T_loop>>,
                VertexLine(<<-1, 0, 0>>), VertexLine(<<0, 2, 0>>),
                VertexLine(<<0, 0, 3>>), <<T_endloop>> >>)

\* the same triangle under a first line `solid part`
NamedStl ==
    TextFile(<<"S", ".", "S", "T", "L">>,
             << <<T_solid, T_part>>, <<T_facet>>, VertexLine(<<-1, 0, 0>>),
                VertexLine(<<0, 2, 0>>), VertexLine(<<0, 0, 3>>), <<T_endloop>> >>)

\* a binary STL file of one triangle: reading it as text fails to decode
BinStl ==
    [name |-> <<"b", ".", "s", "t", "l", "a">>, read |-> "UnicodeDecodeError",
     binary |-> TRUE, lines |-> <<>>,
     vectors |-> << << <<0, 0, 0>>, <<2, 0, 0>>, <<0, 0, 2>> >> >>]

\* files that cannot be opened
GoneStl == [TextFile(<<"g", ".", "s", "t", "l">>, <<>>) EXCEPT !.read = "IOError"]
GoneObj == [TextFile(<<"g", ".", "o", "b", "j">>, <<>>) EXCEPT !.read = "IOError"]

\* a file of another type, and the empty name of a cancelled dialog (line 341)
OtherFile == TextFile(<<"n", ".", "t", "x", "t">>, << <<T_hash>> >>)
NoFile == TextFile(<<>>, <<>>)

Files == {Cube5Obj, TriStl, NamedStl, BinStl, GoneStl, GoneObj, OtherFile, NoFile}

\* what parsing each of these files gives (a file's content does not change)
Parsed == [f \in Files |-> ParseFile(f)]

-----------------------------------------------------------------------------
(* The model and its callers *)

WalkIdle ==
    /\ pc = "idle" /\ i = 0 /\ vertices = <<>> /\ faces = <<>> /\ v = <<>>
    /\ mesh = NoValue

Init ==
    /\ data = Model_init
    /\ op = "init" /\ err = "none" /\ result = NoValue
    /\ before = <<>> /\ invoked = {} /\ file = NoFile
    /\ WalkIdle

ParsersOf(f) == IF Dispatch(f.name) = "stl" THEN StlParsers(f) ELSE {}

\* Controller.open (lines 341-345): the dialog's file, clear, load_file
Open(f) ==
    LET r == Model_load_file(Model_clear(data), Parsed[f])
    IN  /\ before' = data
        /\ data' = r.data
        /\ err' = r.err
        /\ op' = "open"
        /\ result' = NoValue
        /\ invoked' = ParsersOf(f)
        /\ file' = f
        /\ UNCHANGED <<pc, i, vertices, faces, v, mesh>>

\* Model.load_file
LoadFile(f) ==
    LET r == Model_load_file(data, Parsed[f])
    IN  /\ Len(data) < MaxMeshes
        /\ data' = r.data
        /\ err' = r.err
        /\ op' = "load_file"
        /\ result' = NoValue
        /\ invoked' = ParsersOf(f)
        /\ file' = f
        /\ before' = <<>>
        /\ UNCHANGED <<pc, i, vertices, faces, v, mesh>>

\* Model.clear (also Controller.exit, line 355)
Clear ==
    /\ data' = Model_clear(data)
    /\ op' = "clear" /\ err' = "none" /\ result' = NoValue
    /\ before' = <<>> /\ invoked' = {} /\ file' = NoFile
    /\ UNCHANGED <<pc, i, vertices, faces, v, mesh>>

\* View.xy, View.xz, View.yz: each starts with Model.get_bounding_box
GetBoundingBox ==
    LET r == Model_get_bounding_box(data)
    IN  /\ data' = r.data
        /\ err' = r.err
        /\ result' = r.val
        /\ op' = "get_bounding_box"
        /\ before' = <<>> /\ invoked' = {} /\ file' = NoFile
        /\ UNCHANGED <<pc, i, vertices, faces, v, mesh>>

Next ==
    \/ \E f \in Files : Open(f)
    \/ \E f \in Files : LoadFile(f)
    \/ Clear
    \/ GetBoundingBox

Spec == Init /\ [][Next]_vars

-----------------------------------------------------------------------------
(* Model.load_stl, one line of the token walk at a time *)

\* the lines of the files: after the first line, `solid` and `solid part` are
\* lines the walk does not recognise
StlLines ==
    { <<T_solid>>, <<T_solid, T_part>>, <<>>, <<T_facet>>,
      VertexLine(<<0, 1, 2>>), <<T_endloop>> }

StlFiles ==
    UNION {[1..n -> StlLines] : n \in 0..MaxStlLines}

\* the state at line 74, after the file was read (line 66) and the locals
\* were set (lines 71-73)
InitStl ==
    /\ \E lines \in StlFiles : file = TextFile(<<"t", ".", "s", "t", "l">>, lines)
    /\ data = Model_init
    /\ op = "load_stl" /\ err = "none" /\ result = NoValue
    /\ before = <<>> /\ invoked = {"ascii"}
    /\ pc = "walk" /\ i = 0
    /\ vertices = StlStart.vertices /\ faces = StlStart.faces /\ v = StlStart.v
    /\ mesh = NoValue

\* one pass of the loop of lines 74-90
StlLine ==
    LET st == StlStep([vertices |-> vertices, faces |-> faces, v |-> v,
                       err |-> "none"], i, file.lines[i + 1])
    IN  /\ pc = "walk"
        /\ i < Len(file.lines)
        /\ vertices' = st.vertices
        /\ faces' = st.faces
        /\ v' = st.v
        /\ err' = st.err
        /\ pc' = IF st.err = "none" THEN "walk" ELSE "raised"
        /\ i' = IF st.err = "none" THEN i + 1 ELSE i
        /\ UNCHANGED <<data, op, result, before, invoked, file, mesh>>

\* line 92, after the last line
StlReturn ==
    LET r == Mesh_init(vertices, faces)
    IN  /\ pc = "walk"
        /\ i = Len(file.lines)
        /\ err' = r.err
        /\ result' = r.val
        /\ pc' = IF r.err = "none" THEN "returned" ELSE "raised"
        /\ UNCHANGED <<data, op, before, invoked, file, i, vertices, faces, v, mesh>>

NextStl == StlLine \/ StlReturn

SpecStl == InitStl /\ [][NextStl]_vars

-----------------------------------------------------------------------------
(* Model.load_obj on bounded OBJ files *)

ObjLines ==
    { VLine(<<0, 0, 0>>), VLine(<<1, 0, 0>>), VLine(<<0, 1, 0>>),
      <<T_v, Num(1), T_abc, Num(3)>>,
      FLine(<<1, 2, 3>>), FLine(<<1, 2>>), FLine(<<0, 1, 2>>),
      FLine(<<-1, 1, 2>>), FLine(<<1, 2, 4>>),
      <<T_f, <<"1", "/", "1", "0", "/", "5">>, <<"2", "/", "1", "1", "/", "6">>,
             <<"3", "/", "1", "2", "/", "7">> >>,
      <<T_f, <<"1", "/", "/", "5">>, <<"2", "/", "/", "6">>, <<"3", "/", "/", "7">> >>,
      <<T_hash>>, <<>> }

ObjFiles ==
    UNION {[1..n -> ObjLines] : n \in 0..MaxObjLines}

InitObj ==
    /\ \E lines \in ObjFiles : file = TextFile(<<"m", ".", "o", "b", "j">>, lines)
    /\ data = Model_init
    /\ op = "load_obj" /\ err = "none" /\ result = NoValue
    /\ before = <<>> /\ invoked = {}
    /\ pc = "call" /\ i = 0 /\ vertices = <<>> /\ faces = <<>> /\ v = <<>>
    /\ mesh = NoValue

LoadObj ==
    LET r == load_obj(file)
    IN  /\ pc = "call"
        /\ err' = r.err
        /\ result' = r.val
        /\ pc' = IF r.err = "none" THEN "returned" ELSE "raised"
        /\ UNCHANGED <<data, op, before, invoked, file, i, vertices, faces, v, mesh>>

NextObj == LoadObj

SpecObj == InitObj /\ [][NextObj]_vars

-----------------------------------------------------------------------------
(* Mesh.get_line_segments on bounded meshes *)

\* three vertices, two of them at the same point
EdgeVertices == << <<0,0,0>>, <<1,0,0>>, <<0,0,0>> >>

EdgeFaces == UNION {[1..n -> 1..Len(EdgeVertices)] : n \in {1, 2, 3}}

\* the meshes over these vertices, the unit cube of Model.__init__, and a
\* quadrilateral as load_obj builds it from `f 0 1 2 3`
EdgeMeshes ==
    {Mesh_init(EdgeVertices, fs).val :
        fs \in UNION {[1..n -> EdgeFaces] : n \in 1..MaxEdgeFaces}}
    \cup {Model_init[1],
          Mesh_init(SubSeq(CubeVertices, 1, 4), << <<0, 1, 2, 3>> >>).val}

InitEdges ==
    /\ mesh \in EdgeMeshes
    /\ data = Model_init
    /\ op = "init" /\ err = "none" /\ result = NoValue
    /\ before = <<>> /\ invoked = {} /\ file = NoFile
    /\ pc = "call" /\ i = 0 /\ vertices = <<>> /\ faces = <<>> /\ v = <<>>

GetLineSegments ==
    /\ pc = "call"
    /\ result' = Mesh_get_line_segments(mesh)
    /\ op' = "get_line_segments"
    /\ pc' = "returned"
    /\ UNCHANGED <<data, err, before, invoked, file, i, vertices, faces, v, mesh>>

NextEdges == GetLineSegments

SpecEdges == InitEdges /\ [][NextEdges]_vars

-----------------------------------------------------------------------------
(* Properties *)

\* C1: when a load attempt started through Controller.open raises, the
\* model's mesh collection is the one it was before the attempt.
C1_FailedOpenKeepsModel ==
    (op = "open" /\ err # "none") => data = before

\* the box Mesh.__init__ computed for the mesh from its vertices and faces
ConstructionBox(m) == Mesh_get_bounding_box(m.vertices, m.faces).val

\* C2: the stored bounding_box of every owned mesh, the first one included,
\* is the box computed at its construction, whatever queries have run.
C2_BoundingBoxFixed ==
    \A k \in 1..Len(data) : data[k].bounding_box = ConstructionBox(data[k])

IsKind(line, tok) == line # <<>> /\ line[1] = tok

\* the facet...endloop blocks of a file with exactly three vertex lines
WellFormedBlocks(lines) ==
    {<<a, b>> \in (1..Len(lines)) \X (1..Len(lines)) :
        /\ a < b
        /\ IsKind(lines[a], T_facet)
        /\ IsKind(lines[b], T_endloop)
        /\ \A k \in (a + 1)..(b - 1) :
              ~IsKind(lines[k], T_facet) /\ ~IsKind(lines[k], T_endloop)
        /\ Cardinality({k \in (a + 1)..(b - 1) : IsKind(lines[k], T_vertex)}) = 3}

\* C3: on an ASCII STL file whose first line begins with the token `solid`,
\* load_stl returns a mesh whose faces are as many as the well-formed blocks.
C3_OneFacePerBlock ==
    (pc \in {"returned", "raised"} /\ file.lines # <<>>
        /\ IsKind(file.lines[1], T_solid))
    => /\ pc = "returned"
       /\ Len(result.faces) = Cardinality(WellFormedBlocks(file.lines))

\* C4: every face index of a mesh load_obj returns is in 1..len(vertices).
C4_ObjIndicesInRange ==
    (op = "load_obj" /\ pc = "returned")
    => \A f \in 1..Len(result.faces) : \A j \in 1..Len(result.faces[f]) :
          result.faces[f][j] \in 1..Len(result.vertices)

HasShortFace(lines) ==
    \E k \in 1..Len(lines) : IsKind(lines[k], T_f) /\ Len(lines[k]) - 1 < 3

\* C5: load_obj returns no mesh for a file with an `f` line of fewer than 3
\* vertex tokens, and no face of a returned mesh has fewer than 3 indices.
C5_NoDegenerateFace ==
    (op = "load_obj" /\ pc = "returned")
    => /\ ~HasShortFace(file.lines)
       /\ \A f \in 1..Len(result.faces) : Len(result.faces[f]) >= 3

\* the unordered pairs of consecutive indices (last with first) of the faces
UnorderedPairs(m) ==
    UNION {{ {m.faces[f][k], m.faces[f][(k % Len(m.faces[f])) + 1]} :
                k \in 1..Len(m.faces[f])} : f \in 1..Len(m.faces)}

\* the mesh with the faces k and k+1 exchanged
SwapFaces(m, k) ==
    [m EXCEPT !.faces = [n \in 1..Len(m.faces) |->
        IF n = k THEN m.faces[k + 1] ELSE IF n = k + 1 THEN m.faces[k]
        ELSE m.faces[n]]]

\* C6: get_line_segments returns one segment per distinct unordered pair of
\* consecutive face indices, each joining the two vertices of a pair; the
\* result is the same with the faces in another order (every order is reached
\* by exchanging neighbours); the unit cube has 18 segments.
C6_OneSegmentPerPair ==
    (op = "get_line_segments" /\ pc = "returned")
    => /\ BagCardinality(result) = Cardinality(UnorderedPairs(mesh))
       /\ \A s \in BagToSet(result) : \E pr \in UnorderedPairs(mesh) :
             {s[1], s[2]} = {PyGet(mesh.vertices, iv - 1) : iv \in pr}
       /\ \A k \in 1..(Len(mesh.faces) - 1) :
             Mesh_get_line_segments(SwapFaces(mesh, k)) = result
       /\ (mesh.vertices = CubeVertices /\ mesh.faces = CubeFaces)
             => BagCardinality(result) = 18

C6_CubeHas18Segments ==
    /\ op = "get_line_segments" /\ pc = "returned"
    /\ mesh.vertices = CubeVertices /\ mesh.faces = CubeFaces
    /\ BagCardinality(result) = 18

\* per axis, the least minimum and the greatest maximum of the meshes'
\* construction-time boxes
Aggregate(d) ==
    [a \in 1..3 |->
        <<Min({ConstructionBox(d[k])[a][1] : k \in 1..Len(d)}),
          Max({ConstructionBox(d[k])[a][2] : k \in 1..Len(d)})>>]

\* the unit cube followed by the unit cube moved by (5,0,0)
TwoCubes(d) ==
    /\ Len(d) = 2
    /\ d[1].vertices = CubeVertices /\ d[1].faces = CubeFaces
    /\ d[2].vertices = [k \in 1..8 |-> <<CubeVertices[k][1] + 5,
                                         CubeVertices[k][2], CubeVertices[k][3]>>]
    /\ d[2].faces = CubeFaces

\* C7: on a model of at least one mesh every query Model.get_bounding_box
\* returns, per axis, (least of the meshes' minima, greatest of their maxima)
\* over the construction-time boxes; the two cubes give [(0,6),(0,1),(0,1)].
C7_AggregateBox ==
    (op = "get_bounding_box" /\ Len(data) > 0)
    => /\ err = "none"
       /\ result = Aggregate(data)
       /\ TwoCubes(data) => result = << <<0, 6>>, <<0, 1>>, <<0, 1>> >>

C7_TwoCubesQueried ==
    /\ op = "get_bounding_box" /\ TwoCubes(data)
    /\ result = << <<0, 6>>, <<0, 1>>, <<0, 1>> >>
    /\ data[1].bounding_box # ConstructionBox(data[1])

\* C8: when reading the STL file fails with an I/O error, load_stl raises
\* that error and runs neither the token walk nor the binary decoder.
C8_IOFailureRunsNoParser ==
    (op \in {"open", "load_file"} /\ Dispatch(file.name) = "stl"
        /\ file.read = "IOError")
    => err = "IOError" /\ invoked = {}

\* C9: Model.get_bounding_box on an empty collection fails with EmptyModel,
\* raised by a check, and leaves the collection empty.
C9_EmptyModelError ==
    (op = "get_bounding_box" /\ data = <<>>) => err = "EmptyModel"

\* len(vertices) = 3 * len(faces), face k (from 0) is [3k+1, 3k+2, 3k+3]
StlShape(vs, fs) ==
    /\ Len(vs) = 3 * Len(fs)
    /\ \A k \in 0..(Len(fs) - 1) : fs[k + 1] = <<3 * k + 1, 3 * k + 2, 3 * k + 3>>

\* every face index has a vertex, and no vertex slot is in two faces
StlSlots(vs, fs) ==
    /\ \A f \in 1..Len(fs) : \A j \in 1..Len(fs[f]) : fs[f][j] \in 1..Len(vs)
    /\ \A f, g \in 1..Len(fs) : \A j \in 1..Len(fs[f]) : \A k \in 1..Len(fs[g]) :
          fs[f][j] = fs[g][k] => f = g

\* C10: at every step of the token walk of load_stl, and in the mesh it
\* returns, len(vertices) = 3 * len(faces) and face k is [3k+1, 3k+2, 3k+3];
\* so every index is in 1..len(vertices) and no slot is used by two faces.
C10_StlFacesContiguous ==
    /\ StlShape(vertices, faces) /\ StlSlots(vertices, faces)
    /\ (op = "load_stl" /\ pc = "returned")
          => StlShape(result.vertices, result.faces)
             /\ StlSlots(result.vertices, result.faces)

C10_TwoFacesReturned ==
    /\ op = "load_stl" /\ pc = "returned"
    /\ Len(result.faces) = 2 /\ Len(faces) = 2

====
